---- MODULE Spec2Model ----
(***************************************************************************)
(* Model of the call-graph / control-flow export pipeline of src/main.py:  *)
(* androcg_main (lines 74-129) and export_apps_to_format (lines 168-374).  *)
(*                                                                         *)
(* Strings that the code takes apart (file names) are sequences of tokens; *)
(* "." and "/" are tokens of their own and every other token stands for a  *)
(* run of characters without a dot.  Method signatures and call-graph node *)
(* labels are atomic strings.  Ids are 0-based as in the code; TLA+        *)
(* sequences are 1-based, so id k names method_names[k + 1].               *)
(***************************************************************************)
EXTENDS Integers, Sequences, FiniteSets, TLC

\* ---------------------------------------------------------------- bounds
MaxDex      == 2   \* dex units yielded by s.get_objects_dex()
MaxNodes    == 2   \* nodes of the call graph
MaxEdges    == 1   \* edges of the call graph
MaxCfgNodes == 2   \* nodes of one method's aggregated CFG
MaxNameLen  == 5   \* tokens of androcg_main's output name

\* ------------------------------------------------------------ input sets
\* Signatures are named in the order the session yields their methods, and
\* external labels in the order the node table lists them.
SigOrder  == <<"A", "B">>         \* signatures of the application's methods
ExtOrder  == <<"X", "Y">>         \* labels of external call targets
LocalSigs == {SigOrder[i] : i \in 1..Len(SigOrder)}
ExtLabels == {ExtOrder[i] : i \in 1..Len(ExtOrder)}
Alphabet  == {".", "gml", "gz", "bz2"}
ExportDirs == {<<"out">>, <<"out", ".", "gz">>}

VARIABLES
    prog,                  \* "androcg" or "export": the entry point running
    pc,                    \* position in the entry point
    error,                 \* exception that ended the run, "" if none
    exit_status,           \* exit status of the process, 0 while it runs
    output,                \* parameter output (file name / directory name)
    show,                  \* androcg_main parameter show
    methods_filter,        \* export parameter methods_filter
    dexes,                 \* s.get_objects_dex(): the methods of each dex unit
    instructions,          \* instruction count of each method
    dir_exists,            \* os.path.exists(output)
    dir_files,             \* names of the files in the output directory
    file,                  \* content of data.json: the writes, in order
    cg_written,            \* a call-graph writer has been invoked
    CG,                    \* the call graph
    cg_nodes_by_label,     \* label of the i-th call-graph node
    cg_nodes_by_external,  \* is the i-th call-graph node external
    writer,                \* the format key
    methods,               \* OrderedDict signature -> method_id
    method_names,          \* the name table
    first_iteration,       \* "no entry written yet" flag
    di,                    \* dex units taken from s.get_objects_dex()
    mi,                    \* methods taken from vm.get_methods()
    rename_nodes           \* rename_nodes[i + 1] is the code's rename_nodes[i]

vars == <<prog, pc, error, exit_status, output, show, methods_filter, dexes,
          instructions,
          dir_exists, dir_files, file, cg_written, CG, cg_nodes_by_label,
          cg_nodes_by_external, writer, methods, method_names,
          first_iteration, di, mi, rename_nodes>>

\* what a run is given and never assigns
params == <<prog, output, show, methods_filter, dexes, instructions>>

\* an exception nothing catches ends the process with status 1
Raise(e) == pc' = "raised" /\ error' = e /\ exit_status' = 1

\* sys.exit(code)
SysExit(code) == pc' = "exit" /\ exit_status' = code /\ error' = error

\* ------------------------------------------------------- sequence helpers
Range(s) == {s[i] : i \in 1..Len(s)}

Contains(s, x) == \E i \in 1..Len(s) : s[i] = x

\* list.index(x), 0-based; the caller checks Contains first
Index(s, x) == (CHOOSE i \in 1..Len(s) : s[i] = x /\ \A j \in 1..(i - 1) : s[j] # x) - 1

RECURSIVE Dedupe(_)
\* first occurrences, in order: how a dict-backed graph keeps repeated keys
Dedupe(s) ==
    IF s = <<>> THEN <<>>
    ELSE LET front == Dedupe(SubSeq(s, 1, Len(s) - 1))
             last  == s[Len(s)]
         IN IF Contains(front, last) THEN front ELSE Append(front, last)

RECURSIVE Flatten(_)
Flatten(ss) == IF ss = <<>> THEN <<>> ELSE Head(ss) \o Flatten(Tail(ss))

InjectiveSeqs(S, n) == {s \in [1..n -> S] : \A i, j \in 1..n : s[i] = s[j] => i = j}

\* ------------------------------------------------------ format key (text)
Names == UNION {[1..n -> Alphabet] : n \in 0..MaxNameLen}

RECURSIVE RSplit(_, _, _)
\* str.rsplit(sep, maxsplit)
RSplit(s, sep, maxsplit) ==
    IF maxsplit = 0 \/ ~Contains(s, sep) THEN <<s>>
    ELSE LET i == CHOOSE k \in 1..Len(s) :
                      s[k] = sep /\ \A j \in (k + 1)..Len(s) : s[j] # sep
         IN Append(RSplit(SubSeq(s, 1, i - 1), sep, maxsplit - 1),
                   SubSeq(s, i + 1, Len(s)))

\* keys of write_methods in androcg_main
WriteMethodsCG == {<<"gml">>, <<"gexf">>, <<"gpickle">>, <<"graphml">>,
                   <<"yaml">>, <<"net">>}

\* keys of write_methods in export_apps_to_format
WriteMethodsExport == {<<"gml">>, <<"gexf">>, <<"graphml">>, <<"net">>}

\* the compression suffix is not looked through
SelectWriter_last(name) ==
    LET parts == RSplit(name, ".", 1)
    IN IF Len(parts) < 2
       THEN [raised |-> TRUE, writer |-> <<>>]
       ELSE [raised |-> FALSE, writer |-> parts[2]]

\* writer = name.rsplit(".", 1)[1]; if writer in ["bz2", "gz"]:
\* writer = name.rsplit(".", 2)[1].  raised: the first subscript is out of range.
SelectWriter(name) ==
    LET parts == RSplit(name, ".", 1)
    IN IF Len(parts) < 2
       THEN [raised |-> TRUE, writer |-> <<>>]
       ELSE IF parts[2] \in {<<"bz2">>, <<"gz">>}
            THEN [raised |-> FALSE, writer |-> RSplit(name, ".", 2)[2]]
            ELSE [raised |-> FALSE, writer |-> parts[2]]

\* os.path.join(output, "callgraph.gml")
CgOutput(dir) == dir \o <<"/", "callgraph", ".", "gml">>

\* ---------------------------------------------------------------- graphs
EmptyGraph == [nodes |-> <<>>, edges |-> <<>>]

\* node objects of a graph returned by the analysis: opaque handles
Handle(i) == 100 + i

RECURSIVE EdgeSets(_, _)
\* the sets of at most k edges over the node handles N
EdgeSets(N, k) ==
    IF k = 0 THEN {{}}
    ELSE LET smaller == EdgeSets(N, k - 1)
         IN smaller \cup {S \cup {e} : S \in smaller, e \in N \X N}

PairLess(e, f) == e[1] < f[1] \/ (e[1] = f[1] /\ e[2] < f[2])

RECURSIVE EdgeSeq(_)
\* G.edges of a graph with edge set E: by source node, then by target
EdgeSeq(E) ==
    IF E = {} THEN <<>>
    ELSE LET e == CHOOSE x \in E : \A y \in E : x = y \/ PairLess(x, y)
         IN <<e>> \o EdgeSeq(E \ {e})

GraphsOfSize == [n \in 0..MaxNodes |->
                    {[nodes |-> [i \in 1..n |-> Handle(i)], edges |-> EdgeSeq(E)] :
                        E \in EdgeSets({Handle(i) : i \in 1..n}, MaxEdges)}]

NodeCount(G) == Len(G.nodes)
EdgeCount(G) == Len(G.edges)

Position(s, x) == CHOOSE i \in 1..Len(s) : s[i] = x

\* mapping.get(n, n) for a mapping with keys 0 .. Len(mapping) - 1
MapGet(mapping, n) == IF n \in 0..(Len(mapping) - 1) THEN mapping[n + 1] ELSE n

\* nx.convert_node_labels_to_integers(G): the k-th node becomes k - 1
ConvertNodeLabelsToIntegers(G) ==
    [nodes |-> [k \in 1..Len(G.nodes) |-> k - 1],
     edges |-> [k \in 1..Len(G.edges) |->
                   <<Position(G.nodes, G.edges[k][1]) - 1,
                     Position(G.nodes, G.edges[k][2]) - 1>>]]

\* nx.relabel_nodes(G, mapping) on a DiGraph, copy=True: nodes and edges are
\* added under their new names, so nodes given the same name become one node
\* and parallel edges become one edge
RelabelNodes(G, mapping) ==
    LET R(n)   == MapGet(mapping, n)
        RE(e)  == <<R(e[1]), R(e[2])>>
        hnodes == Dedupe([k \in 1..Len(G.nodes) |-> R(G.nodes[k])])
        medges == [k \in 1..Len(G.edges) |-> RE(G.edges[k])]
        From(u) == Dedupe(SelectSeq(medges, LAMBDA e : e[1] = u))
    IN [nodes |-> hnodes,
        edges |-> Flatten([k \in 1..Len(hnodes) |-> From(hnodes[k])])]

\* list(cgdf.source), list(cgdf.target) of nx.to_pandas_edgelist(G)
EdgeSources(G) == [k \in 1..Len(G.edges) |-> G.edges[k][1]]
EdgeTargets(G) == [k \in 1..Len(G.edges) |-> G.edges[k][2]]

\* ------------------------------------------------------------ parameters
NoFilter      == [supplied |-> FALSE, valid |-> TRUE,  matches |-> {}]
InvalidFilter == [supplied |-> TRUE,  valid |-> FALSE, matches |-> {}]

\* methods_filter: absent, a pattern re.compile rejects, or a pattern, which is
\* known by the set of the application's signatures its search() accepts
Filters(app) == {NoFilter, InvalidFilter} \cup
                {[supplied |-> TRUE, valid |-> TRUE, matches |-> S] : S \in SUBSET app}

\* vm.get_methods() of one dex unit: a run of consecutive signatures
MethodSeqs == {SubSeq(SigOrder, i, j) : i \in 1..(Len(SigOrder) + 1), j \in 0..Len(SigOrder)}

\* the dex units of a session: each a list of methods, a signature being
\* defined once in the application
DexLists == {d \in UNION {[1..k -> MethodSeqs] : k \in 0..MaxDex} :
                \E n \in 0..Len(SigOrder) : Flatten(d) = SubSeq(SigOrder, 1, n)}

AppMethods == Range(Flatten(dexes))

\* the instruction counts of the application's methods
InstructionCounts(app) ==
    {f \in [LocalSigs -> 0..1] : \A m \in LocalSigs \ app : f[m] = 0}

\* a write to data.json.  sig names the method an entry belongs to; the code
\* writes the entry without it.
Wr(kind) == [kind |-> kind, sig |-> "", nodes |-> 0, features |-> 0,
             s |-> <<>>, t |-> <<>>, names |-> <<>>]

EmptyDict == [x \in {} |-> 0]

\* -------------------------------------------------------------------- Init
InitCommon ==
    /\ error = ""
    /\ exit_status = 0
    /\ cg_written = FALSE
    /\ CG = EmptyGraph
    /\ cg_nodes_by_label = <<>>
    /\ cg_nodes_by_external = <<>>
    /\ writer = <<>>
    /\ methods = EmptyDict
    /\ method_names = <<>>
    /\ first_iteration = TRUE
    /\ di = 0
    /\ mi = 0
    /\ rename_nodes = <<>>

InitAndrocg ==
    /\ prog = "androcg"
    /\ pc = "cg_start"
    /\ output \in Names
    /\ show \in BOOLEAN
    /\ methods_filter = NoFilter
    /\ dexes = <<>>
    /\ instructions = [m \in LocalSigs |-> 0]
    /\ dir_exists = FALSE
    /\ dir_files = {}
    /\ file = <<>>

InitExport ==
    /\ prog = "export"
    /\ pc = "start"
    /\ output \in ExportDirs
    /\ show = FALSE
    /\ dexes \in DexLists
    /\ methods_filter \in Filters(AppMethods)
    /\ instructions \in InstructionCounts(AppMethods)
    /\ dir_exists \in BOOLEAN
    /\ dir_files \in (IF dir_exists THEN {{}, {"data.json", "old"}} ELSE {{}})
    /\ file = IF "data.json" \in dir_files THEN <<Wr("stale")>> ELSE <<>>

Init == InitCommon /\ (InitAndrocg \/ InitExport)

\* ------------------------------------------------------------ androcg_main
AndrocgGraphs == GraphsOfSize[1]

\* every key is taken as supported
WriterSupported_always(w, table) == TRUE

\* lines 124 and 231: writer in write_methods
WriterSupported(w, table) == w \in table

Androcg_GetCallGraph ==
    /\ prog = "androcg" /\ pc = "cg_start"
    /\ CG' \in AndrocgGraphs
    /\ pc' = "cg_select"
    /\ UNCHANGED <<params, error, exit_status,
                   dir_exists, dir_files, file, cg_written, cg_nodes_by_label,
                   cg_nodes_by_external, writer, methods, method_names,
                   first_iteration, di, mi, rename_nodes>>

Androcg_Plot ==
    /\ prog = "androcg" /\ pc = "cg_select" /\ show
    /\ pc' = "done"
    /\ UNCHANGED <<params, error, exit_status,
                   dir_exists, dir_files, file, cg_written, CG, cg_nodes_by_label,
                   cg_nodes_by_external, writer, methods, method_names,
                   first_iteration, di, mi, rename_nodes>>

Androcg_SelectWriter ==
    /\ prog = "androcg" /\ pc = "cg_select" /\ ~show
    /\ LET r == SelectWriter(output)
       IN IF r.raised
          THEN Raise("IndexError") /\ writer' = writer
          ELSE /\ writer' = r.writer
               /\ IF WriterSupported(r.writer, WriteMethodsCG)
                  THEN pc' = "cg_write" /\ UNCHANGED <<error, exit_status>>
                  ELSE SysExit(1)
    /\ UNCHANGED <<params,
                   dir_exists, dir_files, file, cg_written, CG, cg_nodes_by_label,
                   cg_nodes_by_external, methods, method_names,
                   first_iteration, di, mi, rename_nodes>>

Androcg_Write ==
    /\ prog = "androcg" /\ pc = "cg_write"
    /\ cg_written' = TRUE
    /\ pc' = "done"
    /\ UNCHANGED <<params, error, exit_status,
                   dir_exists, dir_files, file, CG, cg_nodes_by_label,
                   cg_nodes_by_external, writer, methods, method_names,
                   first_iteration, di, mi, rename_nodes>>

\* --------------------------------------------------- export_apps_to_format
\* androconf.rrmdir(d)
Rrmdir(d) == [exists |-> FALSE, files |-> {}]

\* os.makedirs(d)
Makedirs(d) == [exists |-> TRUE, files |-> d.files]

\* the directory is kept as it is found
PrepareOutputDir_keep(d) == [exists |-> TRUE, files |-> d.files]

\* lines 184-190: create the output directory, removing it first if present
PrepareOutputDir(d) == IF ~d.exists THEN Makedirs(d) ELSE Makedirs(Rrmdir(d))

PrepareDir ==
    /\ prog = "export" /\ pc = "start"
    /\ LET d == PrepareOutputDir([exists |-> dir_exists, files |-> dir_files])
       IN /\ dir_exists' = d.exists
          /\ dir_files' = d.files
          /\ file' = IF "data.json" \in d.files THEN file ELSE <<>>
    /\ pc' = "filter"
    /\ UNCHANGED <<params, error, exit_status,
                   cg_written, CG, cg_nodes_by_label, cg_nodes_by_external,
                   writer, methods, method_names, first_iteration, di, mi,
                   rename_nodes>>

\* lines 192-194: re.compile raises on a pattern it cannot compile
CompileFilter ==
    /\ prog = "export" /\ pc = "filter"
    /\ IF methods_filter.supplied /\ ~methods_filter.valid
       THEN Raise("re.error")
       ELSE pc' = "callgraph" /\ UNCHANGED <<error, exit_status>>
    /\ UNCHANGED <<params,
                   dir_exists, dir_files, file, cg_written, CG,
                   cg_nodes_by_label, cg_nodes_by_external, writer, methods,
                   method_names, first_iteration, di, mi, rename_nodes>>

\* the node tables dx.get_modified_call_graph can return with a graph of n
\* nodes: one label per node, no label twice, the internal nodes being methods
\* of the application
NodeLabelings(n) ==
    {s \in InjectiveSeqs(AppMethods \cup ExtLabels, n) :
        \E k \in 0..Len(ExtOrder) :
            SelectSeq(s, LAMBDA l : l \in ExtLabels) = SubSeq(ExtOrder, 1, k)}

\* lines 196-218
GetCallGraph ==
    /\ prog = "export" /\ pc = "callgraph"
    /\ \E n \in 0..MaxNodes :
         \E G \in GraphsOfSize[n], labels \in NodeLabelings(n) :
            /\ CG' = G
            /\ cg_nodes_by_label' = labels
            /\ cg_nodes_by_external' = [i \in 1..n |-> labels[i] \in ExtLabels]
    /\ pc' = "writer"
    /\ UNCHANGED <<params, error, exit_status,
                   dir_exists, dir_files, file, cg_written, writer, methods,
                   method_names, first_iteration, di, mi, rename_nodes>>

\* lines 220-233
SelectWriterExport ==
    /\ prog = "export" /\ pc = "writer"
    /\ LET r == SelectWriter(CgOutput(output))
       IN IF r.raised
          THEN Raise("IndexError") /\ writer' = writer
          ELSE /\ writer' = r.writer
               /\ IF WriterSupported(r.writer, WriteMethodsExport)
                  THEN pc' = "write_cg" /\ UNCHANGED <<error, exit_status>>
                  ELSE SysExit(1)
    /\ UNCHANGED <<params,
                   dir_exists, dir_files, file, cg_written, CG,
                   cg_nodes_by_label, cg_nodes_by_external, methods,
                   method_names, first_iteration, di, mi, rename_nodes>>

\* line 234
WriteCallGraph ==
    /\ prog = "export" /\ pc = "write_cg"
    /\ cg_written' = TRUE
    /\ dir_files' = dir_files \cup {"callgraph.gml"}
    /\ pc' = "open"
    /\ UNCHANGED <<params, error, exit_status,
                   dir_exists, file, CG, cg_nodes_by_label, cg_nodes_by_external,
                   writer, methods, method_names, first_iteration, di, mi,
                   rename_nodes>>

\* lines 244-247: open(cfg_output, 'a') keeps what the file holds
OpenData ==
    /\ prog = "export" /\ pc = "open"
    /\ dir_files' = dir_files \cup {"data.json"}
    /\ file' = (IF "data.json" \in dir_files THEN file ELSE <<>>) \o <<Wr("open")>>
    /\ methods' = EmptyDict
    /\ method_names' = <<>>
    /\ pc' = "dex"
    /\ UNCHANGED <<params, error, exit_status,
                   dir_exists, cg_written, CG, cg_nodes_by_label,
                   cg_nodes_by_external, writer, first_iteration, di, mi,
                   rename_nodes>>

\* lines 248-284: the next dex unit, or the end of the with block.  The
\* decompiler set on vm and the jar archive of lines 252-281 are the work of
\* external tools and touch none of the variables.
NextDex ==
    /\ prog = "export" /\ pc = "dex"
    /\ IF di < Len(dexes)
       THEN di' = di + 1 /\ mi' = 0 /\ first_iteration' = TRUE /\ pc' = "method"
       ELSE pc' = "done" /\ UNCHANGED <<di, mi, first_iteration>>
    /\ UNCHANGED <<params, error, exit_status,
                   dir_exists, dir_files, file, cg_written, CG,
                   cg_nodes_by_label, cg_nodes_by_external, writer, methods,
                   method_names, rename_nodes>>

\* the filter lets every method through
FilterRejects_never(filter, sig) == FALSE

\* lines 287-291: the filter skips the method
FilterRejects(filter, sig) == filter.supplied /\ sig \notin filter.matches

\* the skip also looks at where the run writes to
NoInstructions_byoutput(count) == count = 0 \/ output # <<"out">>

\* lines 305-306: a method without instructions is skipped
NoInstructions(count) == count = 0

\* the check accepts a feature map that misses nodes
FeaturesConsistent_lax(features, nodes) == features <= nodes

\* line 319
FeaturesConsistent(features, nodes) == features = nodes

\* lines 309: methods[method_name] = method_id
DictSet(d, k, v) == [x \in DOMAIN d \cup {k} |-> IF x = k THEN v ELSE d[x]]

\* lines 286-325: the body of the method loop for the next method
DumpMethod ==
    /\ prog = "export" /\ pc = "method" /\ mi < Len(dexes[di])
    /\ mi' = mi + 1
    /\ LET method == dexes[di][mi + 1]
       IN IF FilterRejects(methods_filter, method) \/ NoInstructions(instructions[method])
          THEN UNCHANGED <<pc, error, exit_status, methods, method_names,
                           first_iteration, file>>
          ELSE /\ methods' = DictSet(methods, method, Cardinality(DOMAIN methods))
               /\ method_names' = Append(method_names, method)
               /\ \E nodes \in 1..MaxCfgNodes : \E features \in 0..nodes :
                    IF ~FeaturesConsistent(features, nodes)
                    THEN /\ Raise("AssertionError")
                         /\ UNCHANGED <<first_iteration, file>>
                    ELSE /\ UNCHANGED <<pc, error, exit_status>>
                         /\ first_iteration' = FALSE
                         /\ file' = file
                                \o (IF ~first_iteration THEN <<Wr("sep")>> ELSE <<>>)
                                \o <<[Wr("entry") EXCEPT !.sig = method,
                                                         !.nodes = nodes,
                                                         !.features = features]>>
    /\ UNCHANGED <<params,
                   dir_exists, dir_files, cg_written, CG, cg_nodes_by_label,
                   cg_nodes_by_external, writer, di, rename_nodes>>

\* the counter is not advanced
NextCounter_stuck(counter) == counter

\* line 358
NextCounter(counter) == counter + 1

\* lines 356-362: the id of node i; ok is false when list.index raises
ResolveNode(labels, external, i, st) ==
    IF external[i + 1]
    THEN [ok |-> TRUE,
          rename |-> Append(st.rename, st.counter),
          counter |-> NextCounter(st.counter),
          names |-> Append(st.names, labels[i + 1])]
    ELSE IF Contains(st.names, labels[i + 1])
         THEN [st EXCEPT !.rename = Append(st.rename, Index(st.names, labels[i + 1]))]
         ELSE [st EXCEPT !.ok = FALSE]

RECURSIVE ResolveFrom(_, _, _, _)
\* line 355: for i in range(len(cg_nodes_by_label))
ResolveFrom(labels, external, i, st) ==
    IF i >= Len(labels) \/ ~st.ok THEN st
    ELSE ResolveFrom(labels, external, i + 1, ResolveNode(labels, external, i, st))

\* lines 350-364: at the end of a dex unit's method loop
RelabelCallGraph ==
    /\ prog = "export" /\ pc = "method" /\ mi = Len(dexes[di])
    /\ LET num_local_functions == Len(method_names)
           st == ResolveFrom(cg_nodes_by_label, cg_nodes_by_external, 0,
                             [ok |-> TRUE, rename |-> <<>>,
                              counter |-> num_local_functions,
                              names |-> method_names])
       IN /\ method_names' = st.names
          /\ rename_nodes' = st.rename
          /\ IF st.ok
             THEN /\ CG' = RelabelNodes(ConvertNodeLabelsToIntegers(CG), st.rename)
                  /\ pc' = "edges" /\ UNCHANGED <<error, exit_status>>
             ELSE /\ CG' = ConvertNodeLabelsToIntegers(CG)
                  /\ Raise("ValueError")
    /\ UNCHANGED <<params,
                   dir_exists, dir_files, file, cg_written, cg_nodes_by_label,
                   cg_nodes_by_external, writer, methods, first_iteration, di, mi>>

\* lines 366-371
WriteEdges ==
    /\ prog = "export" /\ pc = "edges"
    /\ file' = file \o <<[Wr("cg_edges") EXCEPT !.s = EdgeSources(CG),
                                                 !.t = EdgeTargets(CG)],
                         [Wr("method_names") EXCEPT !.names = method_names]>>
    /\ pc' = "dex"
    /\ UNCHANGED <<params, error, exit_status,
                   dir_exists, dir_files, cg_written, CG, cg_nodes_by_label,
                   cg_nodes_by_external, writer, methods, method_names,
                   first_iteration, di, mi, rename_nodes>>

Next ==
    \/ Androcg_GetCallGraph
    \/ Androcg_Plot
    \/ Androcg_SelectWriter
    \/ Androcg_Write
    \/ PrepareDir
    \/ CompileFilter
    \/ GetCallGraph
    \/ SelectWriterExport
    \/ WriteCallGraph
    \/ OpenData
    \/ NextDex
    \/ DumpMethod
    \/ RelabelCallGraph
    \/ WriteEdges

Spec == Init /\ [][Next]_vars

\* ======================================================== what was written
Kinds(f) == [k \in 1..Len(f) |-> f[k].kind]

\* the acfg_list entries in data.json, in the order written
Entries == SelectSeq(file, LAMBDA w : w.kind = "entry")

EdgeWrites == SelectSeq(file, LAMBDA w : w.kind = "cg_edges")
NameWrites == SelectSeq(file, LAMBDA w : w.kind = "method_names")

\* the tables a finished document holds
WrittenNames == NameWrites[Len(NameWrites)].names
WrittenEdges == EdgeWrites[Len(EdgeWrites)]

\* L: local methods registered; E: external call-graph nodes met
L == Cardinality(DOMAIN methods)
ExternalNodes == {i \in 1..Len(cg_nodes_by_label) : cg_nodes_by_external[i]}
InternalNodes == {i \in 1..Len(cg_nodes_by_label) : ~cg_nodes_by_external[i]}
E == Cardinality(ExternalNodes)

\* an export run that returned, the session having yielded a dex unit
Completed == prog = "export" /\ pc = "done" /\ Len(dexes) >= 1

\* the methods the method loop has taken so far
Processed ==
    IF di = 0 THEN {}
    ELSE Range(Flatten(SubSeq(dexes, 1, di - 1))) \cup Range(SubSeq(dexes[di], 1, mi))

\* ---------------------------------------------------------------------- C1
\* C1: in every completed export run (one or several dex units) the written
\* method_names has length L + E and every id in either row of cg_edges is
\* an index of method_names.
C1_NameTableSize ==
    Completed =>
        /\ Len(WrittenNames) = L + E
        /\ \A id \in Range(WrittenEdges.s) \cup Range(WrittenEdges.t) :
               0 <= id /\ id < Len(WrittenNames)

\* ---------------------------------------------------------------------- C2
\* the j-th external node of the node table, j from 0
ExternalRank(i) == Cardinality({k \in ExternalNodes : k < i})

\* C2: in every completed export run the k-th acfg_list entry owns id k and
\* method_names[k] is its signature; the j-th external node owns id L + j and
\* method_names[L + j] is its label; every internal node is renamed to the id
\* in [0, L) of the local method with its signature; no id has two owners.
C2_IdAssignment ==
    Completed =>
        /\ Len(Entries) = L
        /\ \A k \in 1..Len(Entries) :
               k <= Len(WrittenNames) /\ WrittenNames[k] = Entries[k].sig
        /\ \A i \in ExternalNodes :
               /\ rename_nodes[i] = L + ExternalRank(i)
               /\ L + ExternalRank(i) < Len(WrittenNames)
               /\ WrittenNames[L + ExternalRank(i) + 1] = cg_nodes_by_label[i]
        /\ \A i \in InternalNodes :
               /\ rename_nodes[i] \in 0..(L - 1)
               /\ Entries[rename_nodes[i] + 1].sig = cg_nodes_by_label[i]
        /\ \A i, j \in 1..Len(rename_nodes) :
               rename_nodes[i] = rename_nodes[j] => i = j
        /\ Len(WrittenNames) = L + E

\* ---------------------------------------------------------------------- C3
\* C3: every entry written to acfg_list has as many features as its CFG has
\* nodes, and the method on which the check fails has no entry.
C3_FeaturesMatchNodes ==
    prog = "export" =>
        /\ \A k \in 1..Len(Entries) : Entries[k].features = Entries[k].nodes
        /\ error = "AssertionError" =>
               \A k \in 1..Len(Entries) :
                   Entries[k].sig # method_names[Len(method_names)]

\* an entry is on file and the check has stopped the run at a later method
C3_Witness ==
    /\ prog = "export" /\ error = "AssertionError"
    /\ Len(Entries) >= 1

\* ---------------------------------------------------------------------- C4
\* C4: a method the supplied filter does not match has no acfg_list entry and
\* no local id, whatever its instruction count, and neither has a method with
\* zero instructions, filter or not.
C4_OnlyQualifying ==
    prog = "export" =>
        \A m \in LocalSigs :
            ((methods_filter.supplied /\ m \notin methods_filter.matches)
                \/ instructions[m] = 0)
            => /\ \A k \in 1..Len(Entries) : Entries[k].sig # m
               /\ m \notin DOMAIN methods
               /\ ~Contains(method_names, m)

\* the run is over; its loop met a method with instructions that the filter
\* does not match and a method without instructions that the filter matches
C4_Witness ==
    /\ Completed
    /\ methods_filter.supplied
    /\ \E m \in Processed : m \notin methods_filter.matches /\ instructions[m] > 0
    /\ \E m \in Processed : m \in methods_filter.matches /\ instructions[m] = 0

\* ---------------------------------------------------------------------- C5
RelabelStep == prog = "export" /\ pc = "method" /\ pc' = "edges"

\* the id the relabeling gives a node of the graph it is handed
NewId(G, n) == rename_nodes'[Position(G.nodes, n)]

\* C5: relabeling keeps the call graph: as many nodes and as many edges as
\* before, no two nodes under one id, and the edges are the former edges
\* under the node-to-id mapping, each as often as before.
C5_RelabelPreservesGraph ==
    [][RelabelStep =>
          /\ NodeCount(CG') = NodeCount(CG)
          /\ EdgeCount(CG') = EdgeCount(CG)
          /\ Len(rename_nodes') = NodeCount(CG)
          /\ \A i, j \in 1..Len(rename_nodes') :
                 rename_nodes'[i] = rename_nodes'[j] => i = j
          /\ CG'.nodes = [k \in 1..NodeCount(CG) |-> NewId(CG, CG.nodes[k])]
          /\ \A e \in Range(CG'.edges) \cup
                      {<<NewId(CG, d[1]), NewId(CG, d[2])>> : d \in Range(CG.edges)} :
                 Cardinality({k \in 1..Len(CG'.edges) : CG'.edges[k] = e})
                   = Cardinality({k \in 1..Len(CG.edges) :
                        <<NewId(CG, CG.edges[k][1]), NewId(CG, CG.edges[k][2])>> = e})
      ]_vars

\* a relabeled graph with an external node ahead of an internal one in the
\* node table and an edge between the two
C5_Witness ==
    /\ prog = "export" /\ pc = "edges"
    /\ NodeCount(CG) >= 2 /\ EdgeCount(CG) >= 1
    /\ cg_nodes_by_external[1] /\ ~cg_nodes_by_external[2]
    /\ <<rename_nodes[2], rename_nodes[1]>> \in Range(CG.edges)

\* ---------------------------------------------------------------------- C6
RECURSIVE EntryKinds(_)
\* n entries with one separator between neighbours
EntryKinds(n) ==
    IF n = 0 THEN <<>>
    ELSE IF n = 1 THEN <<"entry">>
    ELSE EntryKinds(n - 1) \o <<"sep", "entry">>

\* C6: in every completed export run (one or several dex units) data.json
\* receives the opening once, the entries with exactly one separator between
\* neighbours, then the closing of the array with cg_edges, then method_names
\* with the closing brace, each once and nothing after.
C6_WriteSequence ==
    Completed =>
        Kinds(file) = <<"open">> \o EntryKinds(Len(Entries))
                        \o <<"cg_edges", "method_names">>

\* ---------------------------------------------------------------------- C7
FilterMatchesNone ==
    methods_filter.supplied /\ methods_filter.valid
        /\ \A m \in AppMethods : m \notin methods_filter.matches

AllMethodsEmpty == \A m \in AppMethods : instructions[m] = 0

\* C7: when no method qualifies the run completes whatever the call graph:
\* it is not ended by an exception, and the document it leaves is the opening,
\* the closing with cg_edges, and method_names, these holding the call graph.
C7_EmptyExportCompletes ==
    (prog = "export" /\ methods_filter.valid /\ (FilterMatchesNone \/ AllMethodsEmpty)) =>
        /\ pc # "raised"
        /\ Completed =>
               /\ Kinds(file) = <<"open", "cg_edges", "method_names">>
               /\ Len(WrittenEdges.s) = EdgeCount(CG)
               /\ Len(WrittenNames) = NodeCount(CG)

\* ---------------------------------------------------------------------- C8
\* the format key has been derived from the output name
Selected ==
    \/ prog = "androcg" /\ ~show /\ pc \in {"cg_write", "exit", "done"}
    \/ prog = "export" /\ pc \in {"write_cg", "exit", "open", "dex", "method",
                                   "edges", "done"}
    \/ prog = "export" /\ pc = "raised" /\ error \in {"AssertionError", "ValueError"}

SupportedKeys == IF prog = "androcg" THEN WriteMethodsCG ELSE WriteMethodsExport

\* C8: with a format key outside the table of writers the process exits with
\* a non-zero status and no writer runs, so no call-graph file is written; in
\* export_apps_to_format the key is validated before data.json is opened and
\* before any method is processed.
C8_UnsupportedFormatFatal ==
    /\ (Selected /\ writer \notin SupportedKeys) =>
           /\ pc = "exit" /\ exit_status # 0
           /\ ~cg_written /\ "callgraph.gml" \notin dir_files
    /\ cg_written => writer \in SupportedKeys
    /\ pc = "exit" =>
           /\ writer \notin SupportedKeys
           /\ "data.json" \notin dir_files /\ Entries = <<>> /\ L = 0
    /\ (prog = "export" /\ (di > 0 \/ L > 0 \/ Contains(Kinds(file), "open"))) =>
           writer \in WriteMethodsExport /\ cg_written

\* androcg_main has left with status 1 on a key it has no writer for
C8_Witness ==
    /\ prog = "androcg" /\ pc = "exit" /\ exit_status = 1
    /\ writer = <<"gz">>
    /\ ~cg_written

\* ---------------------------------------------------------------------- C9
RECURSIVE Components(_)
\* the dot-separated components of a name, left to right
Components(name) ==
    IF ~Contains(name, ".") THEN <<name>>
    ELSE LET i == CHOOSE k \in 1..Len(name) :
                      name[k] = "." /\ \A j \in 1..(k - 1) : name[j] # "."
         IN <<SubSeq(name, 1, i - 1)>> \o Components(SubSeq(name, i + 1, Len(name)))

Compression == {<<"gz">>, <<"bz2">>}

\* the name the key is derived from
OutputName == IF prog = "androcg" THEN output ELSE CgOutput(output)

SelectionRaised == pc = "raised" /\ error = "IndexError"

\* the key as the claim gives it: the last component, or the one before a
\* last component gz or bz2
ClaimedKey(name) ==
    LET c == Components(name)
        n == Len(c)
    IN IF c[n] \in Compression /\ n >= 2 THEN c[n - 1] ELSE c[n]

\* C9 as stated: for every output name the key is the last dot-separated
\* component, or, that being gz or bz2, the component right before it.
C9_KeyAsClaimed == Selected => writer = ClaimedKey(OutputName)

\* the key as derived: the component before the suffix only when it is an
\* extension, that is when two dots precede the suffix's end
DerivedKey(name) ==
    LET c == Components(name)
        n == Len(c)
    IN IF c[n] \in Compression /\ n >= 3 THEN c[n - 1] ELSE c[n]

\* C9 amended: for a name with a dot the key is its last component, unless
\* that is gz or bz2 and the name has two dots or more, when it is the
\* component before the suffix; a name without a dot has no key, the
\* derivation raises.
C9_KeyDerivation ==
    /\ SelectionRaised => ~Contains(OutputName, ".")
    /\ Selected => /\ Contains(OutputName, ".")
                   /\ writer = DerivedKey(OutputName)

\* the inner extension of a compressed name with a dotted stem was taken
C9_Witness ==
    /\ prog = "androcg" /\ pc = "cg_write"
    /\ Len(Components(output)) >= 4
    /\ output[Len(output)] = "gz"
    /\ writer = <<"gml">>

\* --------------------------------------------------------------------- C10
\* C10: the output directory is recreated before any write: once the run is
\* past its first step the directory exists and holds nothing from before the
\* run, nothing is written before that step, and the first write finds the
\* directory empty.
C10_DirectoryRecreated ==
    prog = "export" =>
        /\ pc = "start" =>
               ~cg_written /\ ~Contains(Kinds(file), "open") /\ di = 0
        /\ pc # "start" =>
               /\ dir_exists
               /\ "old" \notin dir_files
               /\ ~Contains(Kinds(file), "stale")
        /\ pc = "write_cg" => dir_files = {}

\* the first write has been made, into a directory that holds nothing else
C10_Witness ==
    /\ prog = "export" /\ pc = "open"
    /\ dir_exists /\ dir_files = {"callgraph.gml"} /\ file = <<>>

\* --------------------------------------------------------------------- C11
\* what a run is given: the method sequence with the methods' bodies, the
\* filter, and the node tables of the call graph.  A method qualifies when
\* the filter accepts it and it has instructions.
Qualifying(m) ==
    /\ ~methods_filter.supplied \/ m \in methods_filter.matches
    /\ instructions[m] > 0

\* the labels of the external nodes, in the order of the node table
ExternalLabelSeq ==
    LET idx == SelectSeq([i \in 1..Len(cg_nodes_by_label) |-> i],
                         LAMBDA i : cg_nodes_by_external[i])
    IN [k \in 1..Len(idx) |-> cg_nodes_by_label[idx[k]]]

RECURSIVE NamesAfter(_)
\* the name table as a function of what the run is given, after j dex units
NamesAfter(j) ==
    IF j = 0 THEN <<>>
    ELSE NamesAfter(j - 1) \o SelectSeq(dexes[j], Qualifying) \o ExternalLabelSeq

\* C11: the export is deterministic: every method_names sequence a run
\* writes is, element for element, a function of the method sequence, the
\* filter and the node tables alone, so two runs given the same of these
\* write the same sequence.
C11_Deterministic ==
    prog = "export" =>
        \A j \in 1..Len(NameWrites) : NameWrites[j].names = NamesAfter(j)

\* a completed run whose table holds a local and an external name, a method
\* having been skipped
C11_Witness ==
    /\ Completed
    /\ L >= 1 /\ E >= 1
    /\ \E m \in AppMethods : ~Qualifying(m)
    /\ Len(WrittenNames) >= 2

\* --------------------------------------------------------------------- C12
\* the walk over the call graph's node table has begun
ResolutionStarted ==
    /\ prog = "export"
    /\ \/ pc = "edges"
       \/ pc = "raised" /\ error = "ValueError"
       \/ rename_nodes # <<>>
       \/ EdgeWrites # <<>> \/ NameWrites # <<>>

\* the method has been registered and its entry written
Streamed(m) ==
    m \in DOMAIN methods /\ \E k \in 1..Len(Entries) : Entries[k].sig = m

\* C12: call-graph resolution happens once, after all local registration: in
\* any export run (one or several dex units) no node is resolved and neither
\* cg_edges nor method_names is written until every qualifying method of the
\* application is registered and streamed, and once resolution has begun no
\* entry is written any more and the tables are written once.
C12_ResolveOnceAfterLocals ==
    /\ ResolutionStarted => \A m \in AppMethods : Qualifying(m) => Streamed(m)
    /\ \A i \in 1..Len(file) : \A j \in (i + 1)..Len(file) :
           file[i].kind \in {"cg_edges", "method_names"} => file[j].kind # "entry"
    /\ Len(EdgeWrites) <= 1 /\ Len(NameWrites) <= 1

\* --------------------------------------------------------------------- C13
\* the run was ended by the assert of line 319 or the lookup of line 362
ConsistencyError ==
    prog = "export" /\ pc = "raised" /\ error \in {"AssertionError", "ValueError"}

\* C13: a consistency error raised after the document was opened is fatal and
\* leaves a partial file: the run has stopped with a non-zero status and no
\* step follows, a node table that was walked to its end had every internal
\* label registered, and data.json holds the opening and the entries written
\* so far, without the closing of the array, cg_edges, method_names and the
\* closing brace.
C13_PartialFile ==
    /\ ConsistencyError =>
           /\ exit_status # 0
           /\ ~ENABLED Next
           /\ Kinds(file) = <<"open">> \o EntryKinds(Len(Entries))
    /\ (prog = "export" /\ pc = "edges") =>
           \A i \in InternalNodes : Contains(method_names, cg_nodes_by_label[i])

====
